---- MODULE Spec2Model ----
(***************************************************************************)
(* Model of bot.py: the hourly price checker (checker_loop), the state     *)
(* file it shares with the chat command handlers (load_state/save_state),  *)
(* and the handlers themselves (/start, /setdates, /setprice, /direct,     *)
(* /on, /off, /status).                                                    *)
(*                                                                         *)
(* The program is one asyncio event loop.  The checker gives up control    *)
(* only at its awaits (fetch_prices, bot.send_message, the two sleeps), so *)
(* a handler runs only while the checker waits at one of them, and every   *)
(* handler runs to its save_state without interruption.                    *)
(***************************************************************************)
EXTENDS Integers, Sequences, FiniteSets, TLC

\* ---------------------------------------------------------------- bounds
MaxDay == 2       \* calendar days a command can name: 2026-02-01 .. 2026-02-<MaxDay>
MaxPrice == 3     \* offer prices are 1 .. MaxPrice
MaxOffers == 2    \* offers in one response of the price API
MaxEvents == 1    \* commands received plus calls that raise (price API, save_state,
                  \* send_message) during one run of the process

\* ------------------------------------------------------ program constants
DEFAULT_ORIGIN == "SVO"
DEFAULT_DEST == "HKT"
\* stands for 10**18, the price given to an offer without one; only its
\* order against real prices and limits matters
NO_PRICE == 1000000000

Chats == {"1", "2", "3"}                 \* str(m.chat.id)

\* ------------------------------------------------------ Python values
None == <<>>
Some(v) == <<v>>
EmptyDict == [x \in {} |-> 0]

\* dict.get(k, default)
Get(dict, k, default) == IF k \in DOMAIN dict THEN dict[k] ELSE default
\* dict[k] = v
Put(dict, k, v) == [x \in (DOMAIN dict) \cup {k} |-> IF x = k THEN v ELSE dict[x]]

\* The top-level mapping keeps the order in which its keys were inserted
\* (the checker iterates it with state.items()): a sequence of items.
StateKeys(st) == {st[i].k : i \in 1..Len(st)}
StateIndex(st, c) == CHOOSE i \in 1..Len(st) : st[i].k = c
\* state.get(c, {})
StateGet(st, c) == IF c \in StateKeys(st) THEN st[StateIndex(st, c)].v ELSE EmptyDict
\* state[c] = cfg : an existing key keeps its place, a new one goes last
StateSet(st, c, cfg) ==
    IF c \in StateKeys(st)
    THEN [st EXCEPT ![StateIndex(st, c)] = [k |-> c, v |-> cfg]]
    ELSE Append(st, [k |-> c, v |-> cfg])

\* ------------------------------------------------------ dates
\* d.strftime("%Y-%m-%d") for the day with ordinal d (1 = 2026-02-01)
Strftime(d) ==
    CASE d = 1 -> "2026-02-01"
      [] d = 2 -> "2026-02-02"
      [] d = 3 -> "2026-02-03"
      [] d = 4 -> "2026-02-04"
      [] d = 5 -> "2026-02-05"

\* the words a user may type as a date: the days, written as the bot prints
\* them, and one string that is no date in this format
DateWords == {Strftime(d) : d \in 1..MaxDay} \cup {"01.02.2026"}

\* datetime.strptime(s, "%Y-%m-%d") succeeds
ParsesYmd(s) == s \in {Strftime(d) : d \in 1..5} \cup {"2026-2-1"}
\* parse_ymd(s), as the ordinal of the day
parse_ymd(s) ==
    IF s = "2026-2-1" THEN 1
    ELSE CHOOSE d \in 1..5 : Strftime(d) = s

\* list(date_range(d1, d2))
RECURSIVE date_range(_, _)
date_range(d1, d2) == IF d1 <= d2 THEN <<d1>> \o date_range(d1 + 1, d2) ELSE <<>>

\* ------------------------------------------------------ the state file
\* os.path.exists / json.load either give the stored document or fail
MissingFile == [status |-> "missing", doc |-> <<>>]
CorruptFile == [status |-> "corrupt", doc |-> <<>>]

\* mutant: a file that is missing or unreadable is taken for a file that
\* holds one chat that is switched off
load_state_default(f) ==
    IF f.status = "ok" THEN f.doc ELSE <<[k |-> "1", v |-> [enabled |-> FALSE]]>>

load_state(f) == IF f.status = "ok" THEN f.doc ELSE <<>>

\* the whole file is replaced by the mapping it is given
save_state(st) == [status |-> "ok", doc |-> st]

\* ------------------------------------------------------ command handlers
\* the record /start writes for a chat that has none
DefaultCfg ==
    [origin |-> DEFAULT_ORIGIN, dest |-> DEFAULT_DEST,
     date_from |-> None, date_to |-> None, max_price |-> None,
     direct |-> FALSE, one_way |-> TRUE, enabled |-> FALSE,
     last_sent |-> EmptyDict]

\* int(s) for the words a user may type as a price; NotInt: int() raises
PriceWords == {"1", "2", "0", "-5", "abc"}
IsInt(s) == s \in {"1", "2", "3", "0", "-5"}
int(s) ==
    CASE s = "1" -> 1
      [] s = "2" -> 2
      [] s = "3" -> 3
      [] s = "0" -> 0
      [] s = "-5" -> 0 - 5

DirectWords == {"on", "off", "yes"}

\* Each handler as the file it leaves, given the file it finds and m.text.split()
start_file(f, c) ==
    LET st == load_state(f)
    IN IF c \notin StateKeys(st) THEN save_state(StateSet(st, c, DefaultCfg)) ELSE f

\* mutant: the two dates are not parsed before they are stored
setdates_ok_unparsed(parts) == Len(parts) = 3

setdates_ok(parts) ==
    /\ Len(parts) = 3
    /\ ParsesYmd(parts[2])
    /\ ParsesYmd(parts[3])

setdates_file(f, c, parts) ==
    IF ~setdates_ok(parts) THEN f
    ELSE LET st == load_state(f)
             cfg == StateGet(st, c)
             cfg2 == Put(Put(cfg, "date_from", Some(parts[2])), "date_to", Some(parts[3]))
         IN save_state(StateSet(st, c, cfg2))

setprice_ok(parts) ==
    /\ Len(parts) = 2
    /\ IsInt(parts[2])
    /\ int(parts[2]) > 0

setprice_file(f, c, parts) ==
    IF ~setprice_ok(parts) THEN f
    ELSE LET st == load_state(f)
             cfg == StateGet(st, c)
         IN save_state(StateSet(st, c, Put(cfg, "max_price", Some(int(parts[2])))))

direct_ok(parts) ==
    /\ Len(parts) = 2
    /\ parts[2] \in {"on", "off"}

direct_file(f, c, parts) ==
    IF ~direct_ok(parts) THEN f
    ELSE LET st == load_state(f)
             cfg == StateGet(st, c)
         IN save_state(StateSet(st, c, Put(cfg, "direct", parts[2] = "on")))

on_file(f, c) ==
    LET st == load_state(f)
    IN save_state(StateSet(st, c, Put(StateGet(st, c), "enabled", TRUE)))

off_file(f, c) ==
    LET st == load_state(f)
    IN save_state(StateSet(st, c, Put(StateGet(st, c), "enabled", FALSE)))

\* ------------------------------------------------------ the price API
\* an offer is a dict; "price" may be missing
TransferCounts == {0}
Offers ==
    {[transfers |-> t] : t \in TransferCounts}
      \cup {[price |-> p, transfers |-> t] : p \in 1..MaxPrice, t \in TransferCounts}

RECURSIVE SeqsUpTo(_, _)
SeqsUpTo(S, n) ==
    IF n = 0 THEN {<<>>}
    ELSE LET shorter == SeqsUpTo(S, n - 1)
         IN shorter \cup {Append(q, x) : q \in {r \in shorter : Len(r) = n - 1}, x \in S}

\* the JSON bodies the API may answer with
Responses ==
    {[success |-> FALSE, data |-> <<>>]}
      \cup {[success |-> TRUE, data |-> o] : o \in SeqsUpTo(Offers, MaxOffers)}

\* offers that can be told apart when their prices are equal: a direct one
\* without a link and one with a transfer and a link
RichOffers ==
    {[transfers |-> 0], [transfers |-> 1, link |-> "/a"]}
      \cup {[price |-> p, transfers |-> 0] : p \in 1..MaxPrice}
      \cup {[price |-> p, transfers |-> 1, link |-> "/a"] : p \in 1..MaxPrice}

RichResponses ==
    {[success |-> FALSE, data |-> <<>>]}
      \cup {[success |-> TRUE, data |-> o] : o \in SeqsUpTo(RichOffers, MaxOffers)}

\* "true" if flag else "false"
TrueFalse(flag) == IF flag THEN "true" ELSE "false"
\* str(limit), for the limits the program uses
str(n) == CASE n = 100 -> "100"

\* the params fetch_prices sends with its request (return_at is None in the
\* only call, so it is never among them; sorting, currency, market and token
\* are the same in every call)
fetch_params(origin, dest, departure_at, is_direct, one_way, limit) ==
    [origin |-> origin, destination |-> dest, departure_at |-> departure_at,
     one_way |-> TrueFalse(one_way), direct |-> TrueFalse(is_direct),
     limit |-> str(limit)]

\* what fetch_prices returns once the body has arrived
fetch_prices(body) == IF ~body.success THEN <<>> ELSE body.data

\* ------------------------------------------------------ the checker
\* lambda x: x.get("price", 10**18)
PriceOf(x) == Get(x, "price", NO_PRICE)

\* mutant: the last of the cheapest offers is taken
Best_last(list) ==
    LET i == CHOOSE i \in 1..Len(list) :
                 /\ \A j \in 1..Len(list) : PriceOf(list[i]) <= PriceOf(list[j])
                 /\ \A j \in (i + 1)..Len(list) : PriceOf(list[j]) > PriceOf(list[i])
    IN list[i]

\* min(offers, key=...): the first offer no other offer is cheaper than
Best(list) ==
    LET i == CHOOSE i \in 1..Len(list) :
                 /\ \A j \in 1..Len(list) : PriceOf(list[i]) <= PriceOf(list[j])
                 /\ \A j \in 1..(i - 1) : PriceOf(list[j]) > PriceOf(list[i])
    IN list[i]

\* mutant: the enabled flag is not looked at
Skips_ignoresEnabled(cfg) ==
    \/ Get(cfg, "date_from", None) \in {None, Some("")}
    \/ Get(cfg, "date_to", None) \in {None, Some("")}
    \/ Get(cfg, "max_price", None) \in {None, Some(0)}

\* not enabled or not date_from or not date_to or not max_price
Skips(cfg) ==
    \/ ~Get(cfg, "enabled", FALSE)
    \/ Get(cfg, "date_from", None) \in {None, Some("")}
    \/ Get(cfg, "date_to", None) \in {None, Some("")}
    \/ Get(cfg, "max_price", None) \in {None, Some(0)}

\* f"{origin}-{dest}-{depart}", kept as the triple of its parts
KeyOf(cfg, d) ==
    <<Get(cfg, "origin", DEFAULT_ORIGIN), Get(cfg, "dest", DEFAULT_DEST), Strftime(d)>>

\* mutant: the limit itself does not qualify
UnderLimit_strict(price, max_price) == price < max_price

\* price <= int(max_price)
UnderLimit(price, max_price) == price <= max_price

\* mutant: a price equal to the last one sent counts as an improvement
Improves_orEqual(last_sent, key, price) ==
    IF key \notin DOMAIN last_sent THEN TRUE ELSE price <= last_sent[key]

\* prev = last_sent.get(key); prev is None or price < prev
Improves(last_sent, key, price) ==
    IF key \notin DOMAIN last_sent THEN TRUE ELSE price < last_sent[key]

\* mutant: the price sent is not recorded
Remember_forgets(last_sent, key, price) == last_sent

\* last_sent[key] = price
Remember(last_sent, key, price) == Put(last_sent, key, price)

\* mutant: the mapping is saved as it was loaded, without the new price
SavedByChecker_asLoaded(st, i, last_sent) == st

\* what the checker hands to save_state when it has decided to notify chat
\* number i of the mapping it loaded: cfg["last_sent"] = last_sent;
\* state[str(chat_id)] = cfg; save_state(state)
SavedByChecker(st, i, last_sent) ==
    StateSet(st, st[i].k, Put(st[i].v, "last_sent", last_sent))

\* ------------------------------------------------------ state
VARIABLES
    file,      \* state.json
    state,     \* checker_loop: the mapping loaded at the start of the cycle
    pc,        \* checker_loop: where it stands
    idx,       \* checker_loop: position in state.items()
    day,       \* checker_loop: d, the day being fetched (0 outside the day loop)
    msg,       \* checker_loop: the message bot.send_message is sending, or None
    nevents,   \* number of commands received and of calls that raised, so far
    lastCmd,   \* Some(command) right after a handler ran, for the properties
    lastObs,   \* Some(observation) right after a day's offers were judged
    sent,      \* the (chat, key, price) of every send_message call that has ended
    failed,    \* those of them that raised
    trace,     \* the fetches, pauses and faults of the current cycle, in order
    offers,    \* right after a day's offers were judged: the offers, where the
               \* specification keeps them for the properties (SelectSpec), else <<>>
    offed      \* the chats whose latest /on or /off was an /off

vars == <<file, state, pc, idx, day, msg, nevents, lastCmd, lastObs, sent, failed, trace,
          offers, offed>>

\* A store left by an earlier run of the bot, in which chat 1 sent /start,
\* /setdates 2026-02-01 2026-02-01, /setprice 2 and /on, and chat 2 then sent
\* the same with /setdates 2026-02-01 2026-02-02
Configured(f, c, date_to) ==
    on_file(setprice_file(setdates_file(start_file(f, c),
                c, <<"/setdates", "2026-02-01", date_to>>),
                c, <<"/setprice", "2">>), c)

ConfiguredFile ==
    Configured(Configured(MissingFile, "1", "2026-02-01"), "2", "2026-02-02")

Init ==
    /\ file \in {MissingFile, CorruptFile, ConfiguredFile}
    /\ state = <<>>
    /\ pc = "load"
    /\ idx = 0
    /\ day = 0
    /\ msg = None
    /\ nevents = 0
    /\ lastCmd = None
    /\ lastObs = None
    /\ sent = {}
    /\ failed = {}
    /\ trace = <<>>
    /\ offers = <<>>
    /\ offed = {}

Event(op, c, d, p) == [op |-> op, chat |-> c, day |-> d, price |-> p]

\* fetch_prices(session, origin, dest, depart, None, direct=direct,
\* one_way=True) for the record cfg and the day d; limit keeps its default
FetchCall(cfg, d) ==
    fetch_params(Get(cfg, "origin", DEFAULT_ORIGIN), Get(cfg, "dest", DEFAULT_DEST),
                 Strftime(d), Get(cfg, "direct", FALSE), TRUE, 100)

\* the fetch of day d for chat c, with the params of its request
FetchEvent(cfg, c, d) ==
    [op |-> "fetch", chat |-> c, day |-> d, price |-> 0, params |-> FetchCall(cfg, d)]

\* the chat and record the for loop is at
ChatId == state[idx].k
Cfg == state[idx].v
DateFrom == parse_ymd(Get(Cfg, "date_from", None)[1])
DateTo == parse_ymd(Get(Cfg, "date_to", None)[1])
MaxPriceOf(cfg) == Get(cfg, "max_price", None)[1]
LastSent(cfg) == Get(cfg, "last_sent", EmptyDict)

\* state = load_state()
LoadState ==
    /\ pc = "load"
    /\ state' = load_state(file)
    /\ idx' = 1
    /\ pc' = "iter"
    /\ trace' = <<>>
    /\ lastCmd' = None
    /\ offers' = <<>>
    /\ UNCHANGED offed
    /\ lastObs' = None
    /\ UNCHANGED <<file, day, msg, nevents, sent, failed>>

\* the for loop has no chat left: await asyncio.sleep(60 * 60)
CycleEnd ==
    /\ pc = "iter"
    /\ idx > Len(state)
    /\ pc' = "sleep"
    /\ lastCmd' = None
    /\ offers' = <<>>
    /\ UNCHANGED offed
    /\ lastObs' = None
    /\ UNCHANGED <<file, state, idx, day, msg, nevents, sent, failed, trace>>

\* if not enabled or not date_from or not date_to or not max_price: continue
SkipChat ==
    /\ pc = "iter"
    /\ idx <= Len(state)
    /\ Skips(Cfg)
    /\ idx' = idx + 1
    /\ lastCmd' = None
    /\ offers' = <<>>
    /\ UNCHANGED offed
    /\ lastObs' = None
    /\ UNCHANGED <<file, state, pc, day, msg, nevents, sent, failed, trace>>

\* the chat is checked: the day loop starts with the fetch of its first day,
\* or, when date_range yields nothing, goes straight to asyncio.sleep(1)
StartChat ==
    /\ pc = "iter"
    /\ idx <= Len(state)
    /\ ~Skips(Cfg)
    /\ LET days == date_range(DateFrom, DateTo)
       IN IF days = <<>>
          THEN /\ pc' = "pause"
               /\ UNCHANGED <<day, trace>>
          ELSE /\ pc' = "fetch"
               /\ day' = days[1]
               /\ trace' = Append(trace, FetchEvent(Cfg, ChatId, days[1]))
    /\ lastCmd' = None
    /\ offers' = <<>>
    /\ UNCHANGED offed
    /\ lastObs' = None
    /\ UNCHANGED <<file, state, idx, msg, nevents, sent, failed>>

\* mutant: the day loop stops one day short of date_to
NextDay_exclusive ==
    IF day + 1 < DateTo
    THEN /\ pc' = "fetch"
         /\ day' = day + 1
         /\ trace' = Append(trace, FetchEvent(Cfg, ChatId, day + 1))
    ELSE /\ pc' = "pause"
         /\ day' = 0
         /\ UNCHANGED trace

\* for d in date_range(df, dt): the next day is fetched, or the loop is over
NextDay ==
    IF day < DateTo
    THEN /\ pc' = "fetch"
         /\ day' = day + 1
         /\ trace' = Append(trace, FetchEvent(Cfg, ChatId, day + 1))
    ELSE /\ pc' = "pause"
         /\ day' = 0
         /\ UNCHANGED trace

\* mutant: the exception ends the for loop (break instead of continue)
Except_breaks(raised) ==
    /\ nevents < MaxEvents
    /\ nevents' = nevents + 1
    /\ pc' = "iter"
    /\ idx' = Len(state) + 1
    /\ day' = 0
    /\ msg' = None
    /\ trace' = Append(trace, Event(raised, ChatId, day, 0))

\* mutant: the exception is not caught and ends checker_loop
Except_propagates(raised) ==
    /\ nevents < MaxEvents
    /\ nevents' = nevents + 1
    /\ pc' = "crashed"
    /\ idx' = idx
    /\ day' = 0
    /\ msg' = None
    /\ trace' = Append(trace, Event(raised, ChatId, day, 0))

\* a call raised: except Exception: continue
Except(raised) ==
    /\ nevents < MaxEvents
    /\ nevents' = nevents + 1
    /\ pc' = "iter"
    /\ idx' = idx + 1
    /\ day' = 0
    /\ msg' = None
    /\ trace' = Append(trace, Event(raised, ChatId, day, 0))

Observation(key, price, notify) ==
    [chat |-> ChatId, key |-> key, price |-> price, limit |-> MaxPriceOf(Cfg),
     before |-> LastSent(Cfg), notify |-> notify]

\* https://search.aviasales.com + str(link).lstrip("/"), as the pair of its parts
SEARCH_HOST == "https://search.aviasales.com"
Lstrip(link) == CASE link = "/a" -> "a"

\* the url of the button: made from best["link"] when the offer has one, else
\* aviasales_deeplink(origin, dest, depart, None), kept as its varying parts
LinkOf(best, cfg, d) ==
    IF "link" \in DOMAIN best
    THEN <<SEARCH_HOST, Lstrip(best.link)>>
    ELSE <<"https://search.aviasales.com/flights/",
           Get(cfg, "origin", DEFAULT_ORIGIN), Get(cfg, "dest", DEFAULT_DEST), Strftime(d)>>

\* fetch_prices returned what it made of body; the day's offers are judged,
\* and when the price qualifies it is remembered, the mapping is saved and
\* the message goes out
Judge(body) ==
    /\ pc = "fetch"
    /\ LET returned == fetch_prices(body)
           best == Best(returned)
           price == PriceOf(best)
           key == KeyOf(Cfg, day)
           notify == UnderLimit(price, MaxPriceOf(Cfg)) /\ Improves(LastSent(Cfg), key, price)
       IN IF returned = <<>>
          THEN /\ NextDay
               /\ lastObs' = None
               /\ UNCHANGED <<file, state, idx, msg>>
          ELSE /\ lastObs' = Some(Observation(key, price, notify))
               /\ IF notify
                  THEN /\ state' = SavedByChecker(state, idx, Remember(LastSent(Cfg), key, price))
                       /\ file' = save_state(state')
                       /\ msg' = Some([chat |-> ChatId, key |-> key, price |-> price,
                                       transfers |-> Get(best, "transfers", None),
                                       link |-> LinkOf(best, Cfg, day)])
                       /\ pc' = "send"
                       /\ UNCHANGED <<idx, day, trace>>
                  ELSE /\ NextDay
                       /\ UNCHANGED <<file, state, idx, msg>>
    /\ lastCmd' = None
    /\ UNCHANGED <<nevents, sent, failed, offed>>

\* the fetch of the day returns
FetchReturns ==
    \E body \in Responses :
        /\ Judge(body)
        /\ offers' = <<>>

\* the same, but save_state raises: the price is remembered in memory only
FetchReturnsSaveFails ==
    /\ pc = "fetch"
    /\ \E body \in Responses :
         LET returned == fetch_prices(body)
             price == PriceOf(Best(returned))
             key == KeyOf(Cfg, day)
         IN /\ returned # <<>>
            /\ UnderLimit(price, MaxPriceOf(Cfg))
            /\ Improves(LastSent(Cfg), key, price)
            /\ lastObs' = Some(Observation(key, price, TRUE))
            /\ state' = SavedByChecker(state, idx, Remember(LastSent(Cfg), key, price))
    /\ Except("save_raised")
    /\ lastCmd' = None
    /\ offers' = <<>>
    /\ UNCHANGED offed
    /\ UNCHANGED <<file, sent, failed>>

\* session.get times out, the connection fails or the body is no JSON:
\* fetch_prices raises
FetchRaises ==
    /\ pc = "fetch"
    /\ Except("fetch_raised")
    /\ lastCmd' = None
    /\ offers' = <<>>
    /\ UNCHANGED offed
    /\ lastObs' = None
    /\ UNCHANGED <<file, state, sent, failed>>

\* bot.send_message returns
SendReturns ==
    /\ pc = "send"
    /\ sent' = sent \cup {<<msg[1].chat, msg[1].key, msg[1].price>>}
    /\ msg' = None
    /\ NextDay
    /\ lastCmd' = None
    /\ offers' = <<>>
    /\ UNCHANGED offed
    /\ lastObs' = None
    /\ UNCHANGED <<file, state, idx, nevents, failed>>

\* bot.send_message raises
SendRaises ==
    /\ pc = "send"
    /\ sent' = sent \cup {<<msg[1].chat, msg[1].key, msg[1].price>>}
    /\ failed' = failed \cup {<<msg[1].chat, msg[1].key, msg[1].price>>}
    /\ Except("send_raised")
    /\ lastCmd' = None
    /\ offers' = <<>>
    /\ UNCHANGED offed
    /\ lastObs' = None
    /\ UNCHANGED <<file, state>>

\* await asyncio.sleep(1) is over: on to the next chat
Pause ==
    /\ pc = "pause"
    /\ pc' = "iter"
    /\ idx' = idx + 1
    /\ trace' = Append(trace, Event("pause", ChatId, 0, 0))
    /\ lastCmd' = None
    /\ offers' = <<>>
    /\ UNCHANGED offed
    /\ lastObs' = None
    /\ UNCHANGED <<file, state, day, msg, nevents, sent, failed>>

\* await asyncio.sleep(60 * 60) is over: while True
Sleep ==
    /\ pc = "sleep"
    /\ pc' = "load"
    /\ lastCmd' = None
    /\ offers' = <<>>
    /\ UNCHANGED offed
    /\ lastObs' = None
    /\ UNCHANGED <<file, state, idx, day, msg, nevents, sent, failed, trace>>

\* ------------------------------------------------------ commands arriving
\* m.text.split() of the messages a chat may send
SetdatesTexts ==
    {<<"/setdates">>, <<"/setdates", "2026-02-01">>,
     <<"/setdates", "2026-02-01", "2026-02-02", "2026-02-02">>}
      \cup {<<"/setdates", a, b>> : a \in DateWords, b \in DateWords}

SetpriceTexts ==
    {<<"/setprice">>, <<"/setprice", "2", "3">>}
      \cup {<<"/setprice", w>> : w \in PriceWords}

DirectTexts ==
    {<<"/direct">>, <<"/direct", "on", "off">>}
      \cup {<<"/direct", w>> : w \in DirectWords}

\* the awaits of checker_loop: the only places where a handler can run
AwaitPcs == {"fetch", "send", "pause", "sleep"}

\* a handler got the message parts from chat c and ran to its end
Handled(c, parts) ==
    /\ pc \in AwaitPcs
    /\ nevents < MaxEvents
    /\ nevents' = nevents + 1
    /\ lastCmd' = Some([chat |-> c, parts |-> parts])
    /\ lastObs' = None
    /\ offers' = <<>>
    /\ offed' = CASE parts[1] = "/off" -> offed \cup {c}
                 [] parts[1] = "/on" -> offed \ {c}
                 [] OTHER -> offed
    /\ UNCHANGED <<state, pc, idx, day, msg, sent, failed, trace>>

start ==
    \E c \in Chats :
        /\ Handled(c, <<"/start">>)
        /\ file' = start_file(file, c)

setdates ==
    \E c \in Chats, parts \in SetdatesTexts :
        /\ Handled(c, parts)
        /\ file' = setdates_file(file, c, parts)

setprice ==
    \E c \in Chats, parts \in SetpriceTexts :
        /\ Handled(c, parts)
        /\ file' = setprice_file(file, c, parts)

direct ==
    \E c \in Chats, parts \in DirectTexts :
        /\ Handled(c, parts)
        /\ file' = direct_file(file, c, parts)

on ==
    \E c \in Chats :
        /\ Handled(c, <<"/on">>)
        /\ file' = on_file(file, c)

off ==
    \E c \in Chats :
        /\ Handled(c, <<"/off">>)
        /\ file' = off_file(file, c)

\* /status only reads
status ==
    \E c \in Chats :
        /\ Handled(c, <<"/status">>)
        /\ file' = file

Next ==
    \/ LoadState
    \/ CycleEnd
    \/ SkipChat
    \/ StartChat
    \/ FetchReturns
    \/ FetchReturnsSaveFails
    \/ FetchRaises
    \/ SendReturns
    \/ SendRaises
    \/ Pause
    \/ Sleep
    \/ start
    \/ setdates
    \/ setprice
    \/ direct
    \/ on
    \/ off
    \/ status

Spec == Init /\ [][Next]_vars

\* The steps of checker_loop.  Each of them is the end of a wait that ends
\* (a sleep, a call that returns or raises) or runs without waiting.
Checker ==
    \/ LoadState
    \/ CycleEnd
    \/ SkipChat
    \/ StartChat
    \/ FetchReturns
    \/ FetchReturnsSaveFails
    \/ FetchRaises
    \/ SendReturns
    \/ SendRaises
    \/ Pause
    \/ Sleep

LiveSpec == Spec /\ WF_vars(Checker)

\* The bot started on a state file in which the record of chat 1 has
\* one_way false.  No command writes one_way, so such a file has been edited
\* by hand or written by another program; checker_loop reads the field with
\* cfg.get("one_way", True) all the same.
EditedFile ==
    LET st == load_state(ConfiguredFile)
    IN save_state(StateSet(st, "1", Put(StateGet(st, "1"), "one_way", FALSE)))

InitEdited ==
    /\ file = EditedFile
    /\ state = <<>>
    /\ pc = "load"
    /\ idx = 0
    /\ day = 0
    /\ msg = None
    /\ nevents = 0
    /\ lastCmd = None
    /\ lastObs = None
    /\ sent = {}
    /\ failed = {}
    /\ trace = <<>>
    /\ offers = <<>>
    /\ offed = {}

EditedSpec == InitEdited /\ [][Next]_vars

\* The checker alone, with no command arriving and no call raising, on a
\* file that holds chats 1 and 2 as configured and chat 3 as /start left it,
\* and a price API whose offers can be told apart.  The offers of the day
\* judged last are kept.
FetchReturnsKept ==
    \E body \in RichResponses :
        /\ Judge(body)
        /\ offers' = fetch_prices(body)

InitSelect ==
    /\ file = start_file(ConfiguredFile, "3")
    /\ state = <<>>
    /\ pc = "load"
    /\ idx = 0
    /\ day = 0
    /\ msg = None
    /\ nevents = 0
    /\ lastCmd = None
    /\ lastObs = None
    /\ sent = {}
    /\ failed = {}
    /\ trace = <<>>
    /\ offers = <<>>
    /\ offed = {}

NextSelect ==
    \/ LoadState
    \/ CycleEnd
    \/ SkipChat
    \/ StartChat
    \/ FetchReturnsKept
    \/ SendReturns
    \/ Pause
    \/ Sleep

SelectSpec == InitSelect /\ [][NextSelect]_vars

\* ====================================================== properties
\* what the file holds for a chat, as load_state gives it
Stored(c) == StateGet(load_state(file), c)
\* the fetches of chat c in the current cycle, as the days fetched, in order
RECURSIVE FetchedDays(_, _)
FetchedDays(tr, c) ==
    IF tr = <<>> THEN <<>>
    ELSE IF Head(tr).op = "fetch" /\ Head(tr).chat = c
         THEN <<Head(tr).day>> \o FetchedDays(Tail(tr), c)
         ELSE FetchedDays(Tail(tr), c)
\* chat c had a call raise in the current cycle
Raised(c, kinds) == \E i \in 1..Len(trace) : trace[i].chat = c /\ trace[i].op \in kinds
Faults == {"fetch_raised", "save_raised", "send_raised"}

\* ---------------------------------------------------------------- C1
\* C1: the checker decides to notify exactly when the day's price is at most
\* max_price and the key is not in the history or the price is below the
\* price stored for it; a notify decision sets that key to the price in the
\* history and changes no other key, any other decision leaves the history as
\* it was; and a message goes out only on a notify decision.
RuleSays(o) ==
    /\ o.price <= o.limit
    /\ IF o.key \in DOMAIN o.before THEN o.price < o.before[o.key] ELSE TRUE

C1_Decision ==
    lastObs # None =>
        LET o == lastObs[1]
            after == LastSent(StateGet(state, o.chat))
        IN /\ o.notify <=> RuleSays(o)
           /\ (pc = "send") => o.notify /\ msg[1].chat = o.chat /\ msg[1].price = o.price
           /\ o.notify /\ ~Raised(o.chat, Faults) => pc = "send"
           /\ o.notify =>
                /\ DOMAIN after = DOMAIN o.before \cup {o.key}
                /\ after[o.key] = o.price
                /\ \A k \in DOMAIN o.before \ {o.key} : after[k] = o.before[k]
           /\ ~o.notify => after = o.before

\* a price equal to the limit is notified, with another key in the history
C1_Witness ==
    /\ lastObs # None
    /\ lastObs[1].price = lastObs[1].limit
    /\ lastObs[1].notify
    /\ DOMAIN lastObs[1].before \ {lastObs[1].key} # {}
    /\ pc = "send"

\* ---------------------------------------------------------------- C2
\* C2: in every step the price the file holds for a key of a chat stays or
\* goes down (and the key stays), and a message that starts to go out carries
\* a price strictly below every price of every earlier message for the same
\* chat and key.
StoredHistory(f, c) == LastSent(StateGet(load_state(f), c))

C2_Step ==
    /\ \A c \in Chats : \A k \in DOMAIN StoredHistory(file, c) :
          /\ k \in DOMAIN StoredHistory(file', c)
          /\ StoredHistory(file', c)[k] <= StoredHistory(file, c)[k]
    /\ (pc' = "send" /\ pc # "send") =>
          \A t \in sent' :
              (t[1] = msg'[1].chat /\ t[2] = msg'[1].key) => msg'[1].price < t[3]

C2_Monotonic == [][C2_Step]_vars

\* a second message for a key goes out, for a lower price than the first
C2_Witness ==
    /\ pc = "send"
    /\ \E t \in sent : t[1] = msg[1].chat /\ t[2] = msg[1].key /\ t[3] > msg[1].price
    /\ StoredHistory(file, msg[1].chat)[msg[1].key] = msg[1].price

\* ---------------------------------------------------------------- C3
\* C3: a chat whose record, as loaded for the cycle, is disabled, lacks
\* date_from, date_to or max_price, or has date_from after date_to, gets no
\* fetch and no message in that cycle; a chat whose record is enabled, has the
\* three set and date_from not after date_to has been fetched once the loop
\* is past it.
IsSet(cfg, field) == Get(cfg, field, None) # None

Eligible(cfg) ==
    /\ Get(cfg, "enabled", FALSE) = TRUE
    /\ IsSet(cfg, "date_from")
    /\ IsSet(cfg, "date_to")
    /\ IsSet(cfg, "max_price")
    /\ parse_ymd(cfg.date_from[1]) <= parse_ymd(cfg.date_to[1])

C3_Gating ==
    pc # "load" =>
      \A i \in 1..Len(state) :
        LET c == state[i].k
        IN IF Eligible(state[i].v)
           THEN i < idx => FetchedDays(trace, c) # <<>>
           ELSE /\ FetchedDays(trace, c) = <<>>
                /\ ~(pc = "send" /\ msg[1].chat = c)

\* a cycle has ended in which one chat had date_from after date_to and was
\* left alone while another was fetched
C3_Witness ==
    /\ pc = "sleep"
    /\ \E i, j \in 1..Len(state) :
          /\ Get(state[i].v, "enabled", FALSE)
          /\ IsSet(state[i].v, "date_from") /\ IsSet(state[i].v, "date_to")
          /\ IsSet(state[i].v, "max_price")
          /\ parse_ymd(state[i].v.date_from[1]) > parse_ymd(state[i].v.date_to[1])
          /\ FetchedDays(trace, state[i].k) = <<>>
          /\ FetchedDays(trace, state[j].k) # <<>>

\* ---------------------------------------------------------------- C4
\* C4: at the end of a cycle every eligible chat that had no call of its own
\* raise has been fetched on every day of its range, in order, whatever
\* happened to the chats before it; and after a call of another chat raised in
\* the cycle, a price that qualifies for a chat still makes its message go out.
RangeOf(cfg) == date_range(parse_ymd(cfg.date_from[1]), parse_ymd(cfg.date_to[1]))

C4_Isolation ==
    /\ pc = "sleep" =>
         \A i \in 1..Len(state) :
             (Eligible(state[i].v) /\ ~Raised(state[i].k, Faults))
                 => FetchedDays(trace, state[i].k) = RangeOf(state[i].v)
    /\ (/\ lastObs # None
        /\ \E c \in Chats \ {lastObs[1].chat} : Raised(c, Faults)
        /\ ~Raised(lastObs[1].chat, Faults)
        /\ RuleSays(lastObs[1]))
         => /\ pc = "send"
            /\ msg[1].chat = lastObs[1].chat
            /\ msg[1].key = lastObs[1].key
            /\ msg[1].price = lastObs[1].price

\* a call of chat 1 raised, and later in the cycle chat 2, fetched on its two
\* days, is being sent a message
C4_Witness ==
    /\ pc = "send"
    /\ msg[1].chat = "2"
    /\ Raised("1", Faults)
    /\ FetchedDays(trace, "2") = <<1, 2>>

\* ---------------------------------------------------------------- C5
\* C5: a fetch that times out or fails counts as a day without offers: at
\* the end of a cycle every eligible chat for which neither save_state nor
\* send_message raised has been fetched on every day of its range.
C5_TimeoutIsEmptyDay ==
    pc = "sleep" =>
        \A i \in 1..Len(state) :
            (Eligible(state[i].v) /\ ~Raised(state[i].k, {"save_raised", "send_raised"}))
                => FetchedDays(trace, state[i].k) = RangeOf(state[i].v)

\* ---------------------------------------------------------------- C6
\* C6: a step of the checker leaves enabled, date_from, date_to, max_price
\* and direct of every stored chat as the file held them before the step.
Settings == {"enabled", "date_from", "date_to", "max_price", "direct"}
Restrict(cfg, fields) == [k \in (DOMAIN cfg) \cap fields |-> cfg[k]]
StoredIn(f, c) == StateGet(load_state(f), c)

C6_Step ==
    lastCmd' = None =>
        \A c \in StateKeys(load_state(file)) \cap StateKeys(load_state(file')) :
            Restrict(StoredIn(file', c), Settings) = Restrict(StoredIn(file, c), Settings)

C6_OnlyHistory == [][C6_Step]_vars

\* ---------------------------------------------------------------- C7
\* C7: a step of the checker removes no chat from the file.
C7_Step ==
    lastCmd' = None => StateKeys(load_state(file)) \subseteq StateKeys(load_state(file'))

C7_NeverDeletes == [][C7_Step]_vars

\* ---------------------------------------------------------------- C8
\* C8: when every wait of the checker ends, every cycle that starts reaches
\* the hourly sleep and every hourly sleep is followed by the start of a
\* cycle, whatever raised and whatever the file held.
C8_LoopRepeats ==
    /\ (pc = "load") ~> (pc = "sleep")
    /\ (pc = "sleep") ~> (pc = "load")

\* a new cycle is about to start after a cycle in which a call raised
C8_Witness ==
    /\ pc = "load"
    /\ \E c \in Chats : Raised(c, Faults)

\* ---------------------------------------------------------------- C9
\* C9: a message that goes out for a chat and key carries a price strictly
\* below the price of every message for that chat and key whose send raised.
C9_NoRetry ==
    pc = "send" =>
        \A t \in failed :
            (t[1] = msg[1].chat /\ t[2] = msg[1].key) => msg[1].price < t[3]

\* after a send for a key raised, a lower price for it is being sent
C9_Witness ==
    /\ pc = "send"
    /\ \E t \in failed : t[1] = msg[1].chat /\ t[2] = msg[1].key /\ t[3] > msg[1].price

\* ---------------------------------------------------------------- C10
\* C10: a /setdates, /setprice or /direct message that is malformed leaves
\* the file as it was; a well-formed one, and /on and /off, leave every other
\* chat's record and every other field of the sender's record as load_state
\* gave them, keep the order of the chats, and set the commanded fields.
Malformed(parts) ==
    CASE parts[1] = "/setdates" ->
            \/ Len(parts) # 3
            \/ \E i \in 2..Len(parts) : parts[i] \notin {Strftime(d) : d \in 1..MaxDay}
      [] parts[1] = "/setprice" ->
            \/ Len(parts) # 2
            \/ \E i \in 2..Len(parts) : parts[i] \notin {"1", "2", "3"}
      [] parts[1] = "/direct" ->
            \/ Len(parts) # 2
            \/ \E i \in 2..Len(parts) : parts[i] \notin {"on", "off"}
      [] OTHER -> FALSE

Commanded(parts) ==
    CASE parts[1] = "/setdates" ->
            [date_from |-> Some(parts[2]), date_to |-> Some(parts[3])]
      [] parts[1] = "/setprice" ->
            [max_price |-> Some(CHOOSE n \in 1..3 : parts[2] = <<"1", "2", "3">>[n])]
      [] parts[1] = "/direct" -> [direct |-> (parts[2] = "on")]
      [] parts[1] = "/on" -> [enabled |-> TRUE]
      [] parts[1] = "/off" -> [enabled |-> FALSE]

C10_Step ==
    (lastCmd' # None /\ lastCmd'[1].parts[1] \in {"/setdates", "/setprice", "/direct", "/on", "/off"}) =>
        LET c == lastCmd'[1].chat
            parts == lastCmd'[1].parts
            old == load_state(file)
            new == load_state(file')
        IN IF Malformed(parts) THEN file' = file
           ELSE /\ file'.status = "ok"
                /\ Len(new) = Len(old) + (IF c \in StateKeys(old) THEN 0 ELSE 1)
                /\ \A i \in 1..Len(old) : new[i].k = old[i].k
                /\ \A i \in 1..Len(old) : old[i].k # c => new[i].v = old[i].v
                /\ c \in StateKeys(new)
                /\ DOMAIN StateGet(new, c) = DOMAIN StateGet(old, c) \cup DOMAIN Commanded(parts)
                /\ \A k \in DOMAIN Commanded(parts) : StateGet(new, c)[k] = Commanded(parts)[k]
                /\ \A k \in DOMAIN StateGet(old, c) \ DOMAIN Commanded(parts) :
                       StateGet(new, c)[k] = StateGet(old, c)[k]

C10_Commands == [][C10_Step]_vars

\* chat 2, which has a limit and is enabled, has just had /setdates
\* 2026-02-02 2026-02-01 accepted
C10_Witness ==
    /\ lastCmd = Some([chat |-> "2", parts |-> <<"/setdates", "2026-02-02", "2026-02-01">>])
    /\ Get(Stored("2"), "date_from", None) = Some("2026-02-02")
    /\ Get(Stored("2"), "date_to", None) = Some("2026-02-01")
    /\ Get(Stored("2"), "max_price", None) = Some(2)
    /\ Get(Stored("2"), "enabled", FALSE)

\* ---------------------------------------------------------------- C11
\* C11: after the first command (/start, /setdates, /setprice, /direct, /on
\* or /off) of a chat that has no record, the file holds a record for the
\* chat that has every field of the default record, with enabled false and
\* every field the command does not set at its default; /start from a chat
\* that has a record leaves the file as it was.
FirstCommands == {"/start", "/setdates", "/setprice", "/direct", "/on", "/off"}

C11_Step ==
    (lastCmd' # None /\ lastCmd'[1].parts[1] \in FirstCommands) =>
        LET c == lastCmd'[1].chat
            parts == lastCmd'[1].parts
            new == StoredIn(file', c)
            set == IF parts[1] = "/start" \/ Malformed(parts) THEN {}
                   ELSE DOMAIN Commanded(parts)
        IN IF c \in StateKeys(load_state(file))
           THEN parts[1] = "/start" => file' = file
           ELSE /\ c \in StateKeys(load_state(file'))
                /\ DOMAIN new = DOMAIN DefaultCfg
                /\ new.enabled = FALSE
                /\ \A k \in DOMAIN DefaultCfg \ set : new[k] = DefaultCfg[k]

C11_FirstContact == [][C11_Step]_vars

\* ---------------------------------------------------------------- C12
\* C12: load_state gives the empty mapping for a file that is missing or
\* cannot be parsed, and the cycle that starts on such a file goes from the
\* load straight to the hourly sleep: no fetch, no message, no write of the
\* file by the checker, up to the end of that sleep.
C12_Step ==
    /\ (pc = "load" /\ file.status \in {"missing", "corrupt"}) =>
          /\ state' = <<>>
          /\ pc' = "iter"
          /\ file' = file
    /\ (pc = "iter" /\ state = <<>>) =>
          /\ pc' = "sleep"
          /\ file' = file
          /\ trace' = <<>> /\ sent' = sent /\ msg' = None
    /\ (pc = "sleep" /\ state = <<>> /\ lastCmd' = None) =>
          /\ pc' = "load"
          /\ file' = file
          /\ trace' = <<>> /\ sent' = sent /\ msg' = None

C12_EmptyStore == [][C12_Step]_vars

\* a cycle that started on a file that cannot be parsed has reached the
\* hourly sleep, and the file is as it was
C12_Witness ==
    /\ pc = "sleep"
    /\ state = <<>>
    /\ file = CorruptFile
    /\ trace = <<>> /\ sent = {}

\* ---------------------------------------------------------------- C13
\* C13: for an eligible chat none of whose calls raised in the cycle, the
\* days fetched so far are, in order and once each, the days from date_from
\* to the day the loop is at, and once the day loop is over they are the days
\* from date_from to date_to, both included; before its turn nothing is
\* fetched for it.  A fetch that returns no offers leaves the file, the
\* loaded mapping and the messages sent as they were, starts no message, and
\* is followed by the fetch of the next day or, after date_to, by the pause.
DaysFromTo(a, b) == [n \in 1..(b - a + 1) |-> a + n - 1]

C13_Days ==
    pc # "load" =>
      \A i \in 1..Len(state) :
        (Eligible(state[i].v) /\ ~Raised(state[i].k, Faults)) =>
          LET fetched == FetchedDays(trace, state[i].k)
              from == parse_ymd(state[i].v.date_from[1])
              to == parse_ymd(state[i].v.date_to[1])
          IN IF i < idx \/ (i = idx /\ pc = "pause") THEN fetched = DaysFromTo(from, to)
             ELSE IF i = idx /\ pc \in {"fetch", "send"}
                  THEN from <= day /\ day <= to /\ fetched = DaysFromTo(from, day)
                  ELSE fetched = <<>>

\* the step is a fetch that returned no offers
EmptyDayStep ==
    /\ pc = "fetch"
    /\ lastCmd' = None /\ lastObs' = None
    /\ nevents' = nevents

C13_Step ==
    /\ C13_Days'
    /\ EmptyDayStep =>
          /\ file' = file /\ state' = state
          /\ sent' = sent /\ failed' = failed
          /\ msg' = None
          /\ idx' = idx
          /\ IF day < DateTo
             THEN pc' = "fetch" /\ day' = day + 1
             ELSE pc' = "pause"

C13_DayLoop == [][C13_Step]_vars

\* the first day of chat 2 came back without offers and its second day is
\* being fetched
C13_Witness ==
    /\ pc = "fetch"
    /\ ChatId = "2"
    /\ day = 2
    /\ FetchedDays(trace, "2") = <<1, 2>>
    /\ lastObs = None /\ lastCmd = None
    /\ \A t \in sent : t[1] # "2"
    /\ ~Raised("1", Faults)

HoldsFor(f, c, key) ==
    IF key \in DOMAIN StoredHistory(f, c) THEN Some(StoredHistory(f, c)[key]) ELSE None

C15_Held ==
    /\ pc = "send" => HoldsFor(file, msg[1].chat, msg[1].key) = Some(msg[1].price)
    /\ \A t \in sent :
          /\ HoldsFor(file, t[1], t[2]) # None
          /\ HoldsFor(file, t[1], t[2])[1] <= t[3]

C15_Step ==
    /\ C15_Held'
    /\ (pc # "send" /\ pc' = "send") =>
          /\ file' = save_state(state')
          /\ file' # file
          /\ nevents' = nevents
    /\ (nevents' > nevents /\ lastCmd' = None) => pc' # "send"

C15_PersistFirst == [][C15_Step]_vars

\* while a message to a chat is going out, the chat sends /off: the file
\* still holds the price of the message
C15_Witness ==
    /\ pc = "send"
    /\ lastCmd = Some([chat |-> msg[1].chat, parts |-> <<"/off">>])
    /\ HoldsFor(file, msg[1].chat, msg[1].key) = Some(msg[1].price)

\* ---------------------------------------------------------------- C16
\* C16: the price the day is judged by is the lowest price among the offers
\* that have one (the stand-in NO_PRICE only when none has a price), and the
\* transfers and the link of the message are those of the first offer, in the
\* order the API gave them, that has this price.
Priced == {i \in 1..Len(offers) : "price" \in DOMAIN offers[i]}

C16_FirstCheapest ==
    (lastObs # None /\ offers # <<>>) =>
        LET price == lastObs[1].price
        IN IF Priced = {}
           THEN price = NO_PRICE /\ pc # "send"
           ELSE /\ \E i \in Priced : offers[i].price = price
                /\ \A i \in Priced : price <= offers[i].price
                /\ pc = "send" =>
                     LET first == CHOOSE i \in Priced :
                                     /\ offers[i].price = price
                                     /\ \A j \in Priced : j < i => offers[j].price # price
                     IN /\ msg[1].price = price
                        /\ msg[1].transfers = offers[first].transfers
                        /\ msg[1].link = LinkOf(offers[first], StateGet(state, msg[1].chat), day)

\* two offers came at the same qualifying price, the first with a transfer
\* and a link, the second direct and without a link, and the message that
\* is going out has the transfers of the first
C16_Witness ==
    /\ pc = "send"
    /\ lastObs # None
    /\ Len(offers) = 2
    /\ Priced = {1, 2}
    /\ offers[1].price = offers[2].price
    /\ offers[1].transfers # offers[2].transfers
    /\ "link" \in DOMAIN offers[1] /\ "link" \notin DOMAIN offers[2]
    /\ msg[1].transfers = offers[1].transfers

\* ---------------------------------------------------------------- C17
\* C17: in a cycle, between a fetch for one chat and a later fetch for
\* another chat the pause asyncio.sleep(1) has been taken, also when a call
\* of the first chat raised.
C17_Paced ==
    \A i, j \in 1..Len(trace) :
        (/\ i < j
         /\ trace[i].op = "fetch" /\ trace[j].op = "fetch"
         /\ trace[i].chat # trace[j].chat)
            => \E n \in (i + 1)..(j - 1) : trace[n].op = "pause"

\* ---------------------------------------------------------------- C18
\* C18: for a chat whose latest /on or /off was an /off, the file holds
\* enabled false in every state from the end of that /off on, and every
\* cycle that starts in such a state loads the chat as disabled (and so
\* fetches nothing and sends nothing for it).
C18_Off == \A c \in offed : Get(Stored(c), "enabled", TRUE) = FALSE

C18_Step ==
    /\ C18_Off'
    /\ \A c \in offed : pc = "load" => Get(StateGet(state', c), "enabled", TRUE) = FALSE

C18_Durable == [][C18_Step]_vars

\* ---------------------------------------------------------------- C19
\* C19: for every price the file holds under a key in the last_sent of a
\* chat, a message to that chat for that key and price has gone out, has
\* failed to go out, or is going out.
Attempted(c, key, price) ==
    \/ <<c, key, price>> \in sent
    \/ pc = "send" /\ msg[1].chat = c /\ msg[1].key = key /\ msg[1].price = price

C19_OnlySent ==
    \A c \in Chats :
        \A key \in DOMAIN StoredHistory(file, c) :
            Attempted(c, key, StoredHistory(file, c)[key])

====
